---- MODULE Spec2Model ----
(***************************************************************************)
(* Model of weld-demo.ipynb: the NumPy baseline run_numpy_addition, the    *)
(* deferred-evaluation wrapper HelloWeldVector (__init__, add, __iadd__,   *)
(* vector_sum), the driver compare_against_numpy, and the two data         *)
(* cleaning routines run_data_cleaning_pandas / run_data_cleaning_grizzly. *)
(*                                                                         *)
(* Weld programs are strings in the notebook.  Here a string is a sequence *)
(* of lexemes (the fixed pieces of the two templates, one lexeme per       *)
(* character of str(number), one lexeme for an input name), so that        *)
(* template.format is concatenation and evaluation has to parse the        *)
(* program it is given.                                                    *)
(*                                                                         *)
(* A 64-bit value is the record [hi, lo] standing for hi * 65536 + lo with *)
(* 0 <= lo < 65536; the representation is canonical, so equality of        *)
(* records is equality of values.                                          *)
(***************************************************************************)
EXTENDS Integers, Sequences, FiniteSets, TLC

VARIABLES
    \* ---- HelloWeldVector: attributes stored by __init__ (on the class) ----
    cls_vector,     \* HelloWeldVector.vector
    weldobj,        \* HelloWeldVector.weldobj: [name, data, weld_code, decoder]
    var_num,        \* number of names handed out by weldobj.update so far
    live,           \* instances constructed so far
    \* ---- outcome of the latest call ----
    last,           \* [op, h, raised, value]
    evals,          \* number of calls of weldobj.evaluate so far
    \* ---- call history needed to state the claims ----
    wrapped,        \* wrapped[h]: the vector h was constructed with
    added,          \* added[h]: numbers passed to h.add / h += so far
    since_init,     \* numbers added (through any instance) since the latest __init__
    poisoned,       \* an evaluate has failed since the latest __init__
    \* ---- compare_against_numpy ----
    pc,             \* position in the notebook's two calls of compare_against_numpy
    run,            \* number of calls of compare_against_numpy started
    inp,            \* contents every input array is created with
    iters,          \* ITERATIONS
    a,              \* the array bound to a in compare_against_numpy
    hv,             \* the HelloWeldVector bound to a in run_numpy_addition_with_weld
    i,              \* loop variable
    result_numpy,   \* result_numpy of each call so far
    result_weld,    \* result_weld of each call so far
    threads,        \* WELD_NUM_THREADS; no code of the notebook reads it
    \* ---- data cleaning ----
    cpc,            \* position in the notebook's three data cleaning calls
    requests_orig,  \* the 'Incident Zip' column as loaded
    requests,       \* the 'Incident Zip' column of the dataframe being cleaned
    zero_zips,      \* the boolean mask
    result_pandas,  \* result of run_data_cleaning_pandas
    grun,           \* number of calls of run_data_cleaning_grizzly started
    gthreads,       \* WELD_NUM_THREADS during that call; likewise
    gexpr,          \* operations Grizzly has recorded for the column
    result_grizzly  \* result of each call of run_data_cleaning_grizzly so far

apiVars   == <<cls_vector, weldobj, var_num, live, last, evals,
               wrapped, added, since_init, poisoned>>
cmpVars   == <<pc, run, inp, iters, a, hv, i, result_numpy, result_weld,
               threads>>
cleanVars == <<cpc, requests_orig, requests, zero_zips, result_pandas,
               grun, gthreads, gexpr, result_grizzly>>
vars      == <<apiVars, cmpVars, cleanVars>>

------------------------------------------------------------------------------
(* Bounds of the model *)

MaxSize    == 2     \* longest input array of compare_against_numpy
MaxCalls   == 5     \* most calls made on the HelloWeldVector interface
MaxIter    == 3     \* small values tried for ITERATIONS besides the notebook's
MaxRows    == 2     \* most rows of the dataframe that is cleaned

------------------------------------------------------------------------------
(* Program constants *)

ITERATIONS == 40
MaxInt32   == 2147483647
MinInt32   == (-MaxInt32) - 1

\* Elements of the int32 arrays tried as inputs.
ElemValues == {-1, 0, MaxInt32}

RECURSIVE SeqsUpTo(_, _)
SeqsUpTo(S, n) ==
    IF n = 0 THEN {<<>>}
    ELSE LET shorter == SeqsUpTo(S, n - 1)
         IN  shorter \cup {Append(s, e) : s \in {t \in shorter : Len(t) = n - 1}, e \in S}

Vectors == SeqsUpTo(ElemValues, MaxSize)

\* Vectors wrapped in the runs of the HelloWeldVector interface.
ApiVectors == {<<>>, <<0>>, <<MaxInt32>>, <<0, MaxInt32>>, <<MaxInt32, MaxInt32>>}

------------------------------------------------------------------------------
(* int32 and int64 arithmetic *)

\* x + n on two int32 values, wrapping around as NumPy's in-place int32 add
\* and Weld's i32 add do.
Add32(x, n) ==
    IF n >= 0 /\ x > MaxInt32 - n THEN (x + MinInt32) + (n + MinInt32)
    ELSE IF n < 0 /\ x < MinInt32 - n THEN (x - MinInt32) + (n - MinInt32)
    ELSE x + n

\* i64(e): widen an int32.
I64(e) == [hi |-> e \div 65536, lo |-> e % 65536]

\* merge(b, x) of merger[i64,+]; also the accumulation of a.sum().
Merge64(b, x) ==
    LET s == b.lo + x.lo
    IN  [hi |-> b.hi + x.hi + (s \div 65536), lo |-> s % 65536]

Zero64 == I64(0)

RECURSIVE Sum64(_)
\* a.sum() of an int32 array: the elements accumulated in 64 bits.
Sum64(v) ==
    IF v = <<>> THEN Zero64
    ELSE Merge64(Sum64(SubSeq(v, 1, Len(v) - 1)), I64(v[Len(v)]))

------------------------------------------------------------------------------
(* Python values passed to add, and str() *)

PyInt(n)      == [type |-> "int",   val |-> n, frac |-> 0]
PyFloat(w, f) == [type |-> "float", val |-> w, frac |-> f]

\* Operands tried with add: two small ints and the float 1.5.
Numbers == {PyInt(1), PyInt(2), PyFloat(1, 5)}

DigitChars == <<"0", "1", "2", "3", "4", "5", "6", "7", "8", "9">>

RECURSIVE Digits(_)
Digits(n) ==
    IF n < 10 THEN <<DigitChars[n + 1]>>
    ELSE Digits(n \div 10) \o <<DigitChars[(n % 10) + 1]>>

\* str(number)
PyStr(x) ==
    LET whole == IF x.val < 0 THEN <<"-">> \o Digits(-x.val) ELSE Digits(x.val)
    IN  IF x.type = "int" THEN whole ELSE whole \o <<".">> \o Digits(x.frac)

------------------------------------------------------------------------------
(* Weld programs: the two templates, and what the runtime makes of them *)

NumpyArrayDecoder == "NumpyArrayDecoder"
ScalarDecoder     == "ScalarDecoder"

\* Names weldobj.update hands out, in order.
InputNames == <<"_inp0", "_inp1", "_inp2", "_inp3", "_inp4", "_inp5">>

\* Instances are numbered in the order they are constructed.
Handles == 1..Len(InputNames)

\* "map({0}, |e| e + {1})".format(code, numstr)
map_template(code, numstr) ==
    <<"map(">> \o code \o <<", |e| e + ">> \o numstr \o <<")">>

\* "result(for({0}, merger[i64,+], |b,i,e| merge(b, i64(e))))".format(code)
sum_template(code) ==
    <<"result(for(">> \o code \o <<", merger[i64,+], |b,i,e| merge(b, i64(e))))">>

IsDigit(c) == \E k \in 1..10 : DigitChars[k] = c

DigitVal(c) == (CHOOSE k \in 1..10 : DigitChars[k] = c) - 1

\* An i32 literal: decimal digits only, at most nine of them here.
IsI32Literal(t) ==
    /\ Len(t) \in 1..9
    /\ \A k \in 1..Len(t) : IsDigit(t[k])

RECURSIVE LitVal(_)
LitVal(t) ==
    IF Len(t) = 1 THEN DigitVal(t[1])
    ELSE LitVal(SubSeq(t, 1, Len(t) - 1)) * 10 + DigitVal(t[Len(t)])

BadProgram == [ok |-> FALSE, name |-> "", incs |-> <<>>]

\* Position of the last ", |e| e + " in t, 0 if there is none.
MidPos(t) ==
    LET ps == {k \in 1..Len(t) : t[k] = ", |e| e + "}
    IN  IF ps = {} THEN 0 ELSE CHOOSE k \in ps : \A j \in ps : j <= k

RECURSIVE ParseVec(_)
\* A program of type vec[i32]: an input name, or map(<vec>, |e| e + <i32>).
\* incs lists the literals from the innermost map outwards.
ParseVec(t) ==
    IF Len(t) = 1
    THEN [ok |-> \E k \in 1..Len(InputNames) : InputNames[k] = t[1],
          name |-> t[1], incs |-> <<>>]
    ELSE IF Len(t) >= 5 /\ t[1] = "map(" /\ t[Len(t)] = ")" /\ MidPos(t) >= 3
    THEN LET p     == MidPos(t)
             inner == ParseVec(SubSeq(t, 2, p - 1))
             lit   == SubSeq(t, p + 1, Len(t) - 1)
         IN  IF inner.ok /\ IsI32Literal(lit)
             THEN [ok |-> TRUE, name |-> inner.name,
                   incs |-> Append(inner.incs, LitVal(lit))]
             ELSE BadProgram
    ELSE BadProgram

\* A program of type i64: result(for(<vec>, merger[i64,+], ...)).
ParseSum(t) ==
    IF /\ Len(t) >= 3
       /\ t[1] = "result(for("
       /\ t[Len(t)] = ", merger[i64,+], |b,i,e| merge(b, i64(e))))"
    THEN ParseVec(SubSeq(t, 2, Len(t) - 1))
    ELSE BadProgram

RECURSIVE ApplyIncs(_, _)
\* The nested maps applied to one element: e + n1 + ... + nk in i32.
ApplyIncs(e, incs) ==
    IF incs = <<>> THEN e
    ELSE ApplyIncs(Add32(e, incs[1]), SubSeq(incs, 2, Len(incs)))

\* i64(e) of an element of map(...map(v, |e| e + n1)..., |e| e + nk), with
\* the additions made in 64 bits instead of i32.
ElemValue_widened(e, incs) ==
    LET RECURSIVE Plus(_, _)
        Plus(x, ns) == IF ns = <<>> THEN x
                       ELSE Plus(Merge64(x, I64(ns[1])), SubSeq(ns, 2, Len(ns)))
    IN  Plus(I64(e), incs)

\* i64(e) of an element of map(...map(v, |e| e + n1)..., |e| e + nk).
ElemValue(e, incs) == I64(ApplyIncs(e, incs))

RECURSIVE ForMerge(_, _, _)
\* for(v, merger[i64,+], |b,i,e| merge(b, i64(e))) over v in index order.
ForMerge(b, v, incs) ==
    IF v = <<>> THEN b
    ELSE ForMerge(Merge64(b, ElemValue(v[1], incs)),
                  SubSeq(v, 2, Len(v)), incs)

\* weldobj.evaluate(WeldLong()): compile and run wo.weld_code on the data
\* registered under wo.name.  ok = FALSE: the runtime raises.
evaluate(wo) ==
    LET p == ParseSum(wo.weld_code)
    IN  IF p.ok /\ p.name = wo.name
        THEN [ok |-> TRUE,  value |-> ForMerge(Zero64, wo.data, p.incs)]
        ELSE [ok |-> FALSE, value |-> Zero64]

------------------------------------------------------------------------------
(* HelloWeldVector *)

NoCall == [op |-> "none", h |-> 0, raised |-> FALSE, value |-> Zero64]

NumMaps(code) == Cardinality({k \in 1..Len(code) : code[k] = "map("})

\* __init__, installed as classmethod(__init__): self is the class, so
\* vector and weldobj are attributes of HelloWeldVector itself.
HelloWeldVector_init(h, vector) ==
    /\ h = var_num + 1
    /\ LET name == InputNames[var_num + 1]
       IN  /\ cls_vector' = vector
           /\ weldobj' = [name |-> name, data |-> vector,
                          weld_code |-> <<name>>, decoder |-> NumpyArrayDecoder]
    /\ var_num' = var_num + 1
    /\ live' = live \cup {h}
    /\ last' = [NoCall EXCEPT !.op = "__init__", !.h = h]
    /\ wrapped' = [wrapped EXCEPT ![h] = vector]
    /\ added' = [added EXCEPT ![h] = <<>>]
    /\ since_init' = <<>>
    /\ poisoned' = FALSE
    /\ UNCHANGED evals

\* add as it would be if the new map went around the input name instead of
\* around the whole current program.
add_innermost(h, number) ==
    /\ h \in live
    /\ LET code == weldobj.weld_code
           k    == NumMaps(code)
       IN  weldobj' = [weldobj EXCEPT
               !.weld_code = SubSeq(code, 1, k)
                             \o map_template(<<code[k + 1]>>, PyStr(number))
                             \o SubSeq(code, k + 2, Len(code))]
    /\ last' = [NoCall EXCEPT !.op = "add", !.h = h]
    /\ added' = [added EXCEPT ![h] = Append(@, number)]
    /\ since_init' = Append(since_init, number)
    /\ UNCHANGED <<cls_vector, var_num, live, evals, wrapped, poisoned>>

\* add as it would be if it ran the program it has just built.
add_eager(h, number) ==
    /\ h \in live
    /\ weldobj' = [weldobj EXCEPT
                     !.weld_code = map_template(weldobj.weld_code, PyStr(number))]
    /\ last' = [NoCall EXCEPT !.op = "add", !.h = h]
    /\ added' = [added EXCEPT ![h] = Append(@, number)]
    /\ since_init' = Append(since_init, number)
    /\ evals' = evals + 1
    /\ UNCHANGED <<cls_vector, var_num, live, wrapped, poisoned>>

\* add(self, number); self.weldobj is the class attribute.
add(h, number) ==
    /\ h \in live
    /\ weldobj' = [weldobj EXCEPT
                     !.weld_code = map_template(weldobj.weld_code, PyStr(number))]
    /\ last' = [NoCall EXCEPT !.op = "add", !.h = h]
    /\ added' = [added EXCEPT ![h] = Append(@, number)]
    /\ since_init' = Append(since_init, number)
    /\ UNCHANGED <<cls_vector, var_num, live, evals, wrapped, poisoned>>

\* __iadd__(self, other): return self.add(other)
iadd(h, other) == add(h, other)

\* vector_sum as it would be with the restoring assignments in a finally block.
vector_sum_finally(h) ==
    /\ h \in live
    /\ LET prev_code == weldobj.weld_code
           armed     == [weldobj EXCEPT !.weld_code = sum_template(prev_code),
                                        !.decoder = ScalarDecoder]
           r         == evaluate(armed)
       IN  /\ weldobj' = [armed EXCEPT !.decoder = NumpyArrayDecoder,
                                       !.weld_code = prev_code]
           /\ last' = [op |-> "vector_sum", h |-> h, raised |-> ~r.ok,
                       value |-> r.value]
           /\ poisoned' = (poisoned \/ ~r.ok)
    /\ evals' = evals + 1
    /\ UNCHANGED <<cls_vector, var_num, live, wrapped, added, since_init>>

\* vector_sum(self).  When evaluate raises, the two restoring assignments
\* are not reached.
vector_sum(h) ==
    /\ h \in live
    /\ LET prev_code == weldobj.weld_code
           armed     == [weldobj EXCEPT !.weld_code = sum_template(prev_code),
                                        !.decoder = ScalarDecoder]
           r         == evaluate(armed)
       IN  IF r.ok
           THEN /\ weldobj' = [armed EXCEPT !.decoder = NumpyArrayDecoder,
                                            !.weld_code = prev_code]
                /\ last' = [op |-> "vector_sum", h |-> h, raised |-> FALSE,
                            value |-> r.value]
                /\ poisoned' = poisoned
           ELSE /\ weldobj' = armed
                /\ last' = [op |-> "vector_sum", h |-> h, raised |-> TRUE,
                            value |-> Zero64]
                /\ poisoned' = TRUE
    /\ evals' = evals + 1
    /\ UNCHANGED <<cls_vector, var_num, live, wrapped, added, since_init>>

------------------------------------------------------------------------------
(* Specification of the HelloWeldVector interface: any sequence of calls *)

NoObject == [name |-> "", data |-> <<>>, weld_code |-> <<>>,
             decoder |-> NumpyArrayDecoder]

ApiInit ==
    /\ cls_vector = <<>>
    /\ weldobj = NoObject
    /\ var_num = 0
    /\ live = {}
    /\ last = NoCall
    /\ evals = 0
    /\ wrapped = [h \in Handles |-> <<>>]
    /\ added = [h \in Handles |-> <<>>]
    /\ since_init = <<>>
    /\ poisoned = FALSE

CmpIdle ==
    /\ pc = "idle" /\ run = 0 /\ inp = <<>> /\ iters = 0 /\ a = <<>> /\ hv = 0
    /\ i = 0 /\ result_numpy = <<>> /\ result_weld = <<>>
    /\ threads = 0

CleanIdle ==
    /\ cpc = "idle" /\ requests_orig = <<>> /\ requests = <<>>
    /\ zero_zips = <<>> /\ result_pandas = <<>> /\ gexpr = <<>>
    /\ grun = 0 /\ gthreads = 0
    /\ result_grizzly = <<>>

Init == ApiInit /\ CmpIdle /\ CleanIdle

RECURSIVE NumAdds(_)
NumAdds(n) == IF n = 0 THEN 0 ELSE Len(added[n]) + NumAdds(n - 1)

\* Calls made so far: constructions, adds, vector_sums.
NumCalls == var_num + NumAdds(var_num) + evals

Construct ==
    /\ NumCalls < MaxCalls
    /\ \E h \in Handles, v \in ApiVectors : HelloWeldVector_init(h, v)
    /\ UNCHANGED <<cmpVars, cleanVars>>

CallAdd ==
    /\ NumCalls < MaxCalls
    /\ \E h \in Handles, n \in Numbers : add(h, n)
    /\ UNCHANGED <<cmpVars, cleanVars>>

CallIAdd ==
    /\ NumCalls < MaxCalls
    /\ \E h \in Handles, n \in Numbers : iadd(h, n)
    /\ UNCHANGED <<cmpVars, cleanVars>>

CallSum ==
    /\ NumCalls < MaxCalls
    /\ \E h \in Handles : vector_sum(h)
    /\ UNCHANGED <<cmpVars, cleanVars>>

Next == Construct \/ CallAdd \/ CallIAdd \/ CallSum

Spec == Init /\ [][Next]_vars

------------------------------------------------------------------------------
(* compare_against_numpy, called with WELD_NUM_THREADS = 1 and then = 4 *)

ThreadCounts == <<1, 4>>

IterChoices == (0..MaxIter) \cup {ITERATIONS}

\* a = np.zeros((SIZE), dtype='int32'), then the call of run_numpy_addition.
StartCompare ==
    /\ pc \in {"start", "weld_returned"}
    /\ run < Len(ThreadCounts)
    /\ run' = run + 1
    /\ threads' = ThreadCounts[run + 1]
    /\ a' = inp
    /\ i' = 0
    /\ pc' = "numpy_loop"
    /\ UNCHANGED <<inp, iters, hv, result_numpy, result_weld>>
    /\ UNCHANGED <<apiVars, cleanVars>>

\* a += i as it would be if it bound a new array to the local name.
NumpyIAdd_rebind ==
    /\ pc = "numpy_loop"
    /\ i < iters
    /\ a' = a
    /\ i' = i + 1
    /\ UNCHANGED <<pc, run, inp, iters, hv, result_numpy, result_weld,
                   threads>>
    /\ UNCHANGED <<apiVars, cleanVars>>

\* run_numpy_addition: a += i, in place on the caller's array.
NumpyIAdd ==
    /\ pc = "numpy_loop"
    /\ i < iters
    /\ a' = [k \in 1..Len(a) |-> Add32(a[k], i)]
    /\ i' = i + 1
    /\ UNCHANGED <<pc, run, inp, iters, hv, result_numpy, result_weld,
                   threads>>
    /\ UNCHANGED <<apiVars, cleanVars>>

\* run_numpy_addition: return a.sum()
NumpySum ==
    /\ pc = "numpy_loop"
    /\ i = iters
    /\ result_numpy' = Append(result_numpy, Sum64(a))
    /\ pc' = "numpy_returned"
    /\ UNCHANGED <<run, inp, iters, a, hv, i, result_weld, threads>>
    /\ UNCHANGED <<apiVars, cleanVars>>

\* a = np.zeros((SIZE), dtype='int32') again, then
\* run_numpy_addition_with_weld: a = HelloWeldVector(a)
WeldWrap ==
    /\ pc = "numpy_returned"
    /\ a' = inp
    /\ hv' = var_num + 1
    /\ HelloWeldVector_init(var_num + 1, inp)
    /\ i' = 0
    /\ pc' = "weld_loop"
    /\ UNCHANGED <<run, inp, iters, result_numpy, result_weld, threads>>
    /\ UNCHANGED cleanVars

\* run_numpy_addition_with_weld: a += i
WeldIAdd ==
    /\ pc = "weld_loop"
    /\ i < iters
    /\ iadd(hv, PyInt(i))
    /\ i' = i + 1
    /\ UNCHANGED <<pc, run, inp, iters, a, hv, result_numpy, result_weld,
                   threads>>
    /\ UNCHANGED cleanVars

\* run_numpy_addition_with_weld: return a.vector_sum()
WeldVectorSum ==
    /\ pc = "weld_loop"
    /\ i = iters
    /\ vector_sum(hv)
    /\ result_weld' = IF last'.raised THEN result_weld
                      ELSE Append(result_weld, last'.value)
    /\ pc' = IF last'.raised THEN "raised" ELSE "weld_returned"
    /\ UNCHANGED <<run, inp, iters, a, hv, i, result_numpy, threads>>
    /\ UNCHANGED cleanVars

CmpInit ==
    /\ ApiInit
    /\ CleanIdle
    /\ pc = "start" /\ run = 0
    /\ inp \in Vectors
    /\ iters \in IterChoices
    /\ a = <<>> /\ hv = 0 /\ i = 0
    /\ result_numpy = <<>> /\ result_weld = <<>>
    /\ threads = 0

CmpNext ==
    \/ StartCompare
    \/ NumpyIAdd
    \/ NumpySum
    \/ WeldWrap
    \/ WeldIAdd
    \/ WeldVectorSum

SpecCompare == CmpInit /\ [][CmpNext]_vars

------------------------------------------------------------------------------
(* Data cleaning: run_data_cleaning_pandas and run_data_cleaning_grizzly *)

\* A cell of the 'Incident Zip' column: a string (its characters) or NaN.
Str(chars) == [na |-> FALSE, s |-> chars]
NaN        == [na |-> TRUE,  s |-> <<>>]

\* Zipcodes tried: a plain one, one with more than 5 characters, all-zero
\* ones of 5 and of 6 characters, one with leading zeros, a missing one.
ZipValues ==
    { NaN,
      Str(<<"1", "0", "0", "0", "4">>),
      Str(<<"1", "0", "0", "0", "4", "-", "1">>),
      Str(<<"0", "0", "0", "0", "0">>),
      Str(<<"0", "0", "0", "0", "0", "0">>),
      Str(<<"0", "0", "0", "8", "3">>) }

Columns == SeqsUpTo(ZipValues, MaxRows)

Zeros5    == <<"0", "0", "0", "0", "0">>
NanString == <<"n", "a", "n">>

Range(q) == {q[k] : k \in 1..Len(q)}

\* s[start:stop] of a Python string, 0 <= start <= stop
Slice(chars, start, stop) ==
    SubSeq(chars, start + 1, IF stop < Len(chars) THEN stop ELSE Len(chars))

\* .str.slice(0, 5) on one cell: NaN stays NaN
StrSlice(c, start, stop) ==
    IF c.na THEN c ELSE Str(Slice(c.s, start, stop))

RECURSIVE Unique(_)
\* Series.unique(): the distinct values in order of first appearance
Unique(col) ==
    IF col = <<>> THEN <<>>
    ELSE LET u == Unique(SubSeq(col, 1, Len(col) - 1))
         IN  IF col[Len(col)] \in Range(u) THEN u ELSE Append(u, col[Len(col)])

\* The masked assignment as it would be if requests['Incident Zip'] handed
\* out a copy of the column.
PandasAssign_copy ==
    /\ cpc = "p_assign"
    /\ cpc' = "p_unique"
    /\ UNCHANGED <<requests_orig, requests, zero_zips, result_pandas, grun,
                   gthreads, gexpr, result_grizzly>>
    /\ UNCHANGED <<apiVars, cmpVars>>

\* requests = requests_orig.copy(), then run_data_cleaning_pandas:
\* requests['Incident Zip'] = requests['Incident Zip'].str.slice(0, 5)
PandasSlice ==
    /\ cpc = "start"
    /\ requests' = [k \in 1..Len(requests_orig) |-> StrSlice(requests_orig[k], 0, 5)]
    /\ cpc' = "p_mask"
    /\ UNCHANGED <<requests_orig, zero_zips, result_pandas, grun, gthreads,
                   gexpr, result_grizzly>>
    /\ UNCHANGED <<apiVars, cmpVars>>

\* zero_zips = requests['Incident Zip'] == '00000'
PandasMask ==
    /\ cpc = "p_mask"
    /\ zero_zips' = [k \in 1..Len(requests) |-> requests[k] = Str(Zeros5)]
    /\ cpc' = "p_assign"
    /\ UNCHANGED <<requests_orig, requests, result_pandas, grun, gthreads,
                   gexpr, result_grizzly>>
    /\ UNCHANGED <<apiVars, cmpVars>>

\* requests['Incident Zip'][zero_zips] = np.nan
PandasAssign ==
    /\ cpc = "p_assign"
    /\ requests' = [k \in 1..Len(requests) |->
                       IF zero_zips[k] THEN NaN ELSE requests[k]]
    /\ cpc' = "p_unique"
    /\ UNCHANGED <<requests_orig, zero_zips, result_pandas, grun, gthreads,
                   gexpr, result_grizzly>>
    /\ UNCHANGED <<apiVars, cmpVars>>

\* result = requests['Incident Zip'].unique()
PandasUnique ==
    /\ cpc = "p_unique"
    /\ result_pandas' = Unique(requests)
    /\ cpc' = "p_done"
    /\ UNCHANGED <<requests_orig, requests, zero_zips, grun, gthreads,
                   gexpr, result_grizzly>>
    /\ UNCHANGED <<apiVars, cmpVars>>

\* What Grizzly hands to Weld for a cell of a string column: the column is
\* converted to an array of strings, in which a missing value reads 'nan'.
GrizzlyEncode(c) == IF c.na THEN Str(NanString) ELSE c

SliceOp(start, size) == [op |-> "slice", start |-> start, size |-> size,
                         eq |-> <<>>, new |-> <<>>]
MaskOp(eq, new)      == [op |-> "mask", start |-> 0, size |-> 0,
                         eq |-> eq, new |-> new]

\* One recorded operation applied to one element, with the slice taking one
\* character more than asked for.
ApplyOp_long(c, o) ==
    IF o.op = "slice" THEN Str(Slice(c.s, o.start, o.start + o.size + 1))
    ELSE IF c.s = o.eq THEN Str(o.new) ELSE c

\* One recorded operation applied to one element.
ApplyOp(c, o) ==
    IF o.op = "slice" THEN Str(Slice(c.s, o.start, o.start + o.size))
    ELSE IF c.s = o.eq THEN Str(o.new) ELSE c

RECURSIVE ApplyOps(_, _)
ApplyOps(c, ops) ==
    IF ops = <<>> THEN c
    ELSE ApplyOps(ApplyOp(c, ops[1]), SubSeq(ops, 2, Len(ops)))

\* The orders in which the values of a set can be listed.
Orders(S) ==
    {q \in [1..Cardinality(S) -> S] : \A x \in S : \E k \in DOMAIN q : q[k] = x}

\* os.environ["WELD_NUM_THREADS"] = "1" / "4"; requests = requests_orig.copy();
\* run_data_cleaning_grizzly: requests = gr.DataFrameWeld(requests)
GrizzlyWrap ==
    /\ cpc \in {"p_done", "g_done"}
    /\ grun < Len(ThreadCounts)
    /\ grun' = grun + 1
    /\ gthreads' = ThreadCounts[grun + 1]
    /\ requests' = requests_orig
    /\ gexpr' = <<>>
    /\ cpc' = "g_slice"
    /\ UNCHANGED <<requests_orig, zero_zips, result_pandas, result_grizzly>>
    /\ UNCHANGED <<apiVars, cmpVars>>

\* requests['Incident Zip'] = requests['Incident Zip'].str.slice(0, 5): recorded
GrizzlySlice ==
    /\ cpc = "g_slice"
    /\ gexpr' = Append(gexpr, SliceOp(0, 5))
    /\ cpc' = "g_assign"
    /\ UNCHANGED <<requests_orig, requests, zero_zips, result_pandas, grun,
                   gthreads, result_grizzly>>
    /\ UNCHANGED <<apiVars, cmpVars>>

\* zero_zips = requests['Incident Zip'] == '00000'
\* requests['Incident Zip'][zero_zips] = 'nan': recorded
GrizzlyAssign ==
    /\ cpc = "g_assign"
    /\ gexpr' = Append(gexpr, MaskOp(Zeros5, NanString))
    /\ cpc' = "g_unique"
    /\ UNCHANGED <<requests_orig, requests, zero_zips, result_pandas, grun,
                   gthreads, result_grizzly>>
    /\ UNCHANGED <<apiVars, cmpVars>>

\* requests['Incident Zip'].unique().evaluate(verbose=True): the recorded
\* operations applied to every cell of the encoded column, each distinct value
\* returned once.  The order of the values is left open: the recorded results
\* of the two calls list the same values in different orders, neither of them
\* the order of first appearance.
GrizzlyUnique ==
    /\ cpc = "g_unique"
    /\ LET vals == {ApplyOps(GrizzlyEncode(requests[k]), gexpr) :
                       k \in 1..Len(requests)}
       IN  \E q \in Orders(vals) : result_grizzly' = Append(result_grizzly, q)
    /\ cpc' = "g_done"
    /\ UNCHANGED <<requests_orig, requests, zero_zips, result_pandas, grun,
                   gthreads, gexpr>>
    /\ UNCHANGED <<apiVars, cmpVars>>

CleanInit ==
    /\ ApiInit
    /\ CmpIdle
    /\ cpc = "start"
    /\ requests_orig \in Columns
    /\ requests = <<>> /\ zero_zips = <<>> /\ result_pandas = <<>>
    /\ grun = 0 /\ gthreads = 0 /\ gexpr = <<>>
    /\ result_grizzly = <<>>

CleanNext ==
    \/ PandasSlice
    \/ PandasMask
    \/ PandasAssign
    \/ PandasUnique
    \/ GrizzlyWrap
    \/ GrizzlySlice
    \/ GrizzlyAssign
    \/ GrizzlyUnique

SpecClean == CleanInit /\ [][CleanNext]_vars

------------------------------------------------------------------------------
(* Properties *)

Front(q) == SubSeq(q, 1, Len(q) - 1)

IsInts(ns) == \A k \in 1..Len(ns) : ns[k].type = "int"

------------------------------------------------------------------------------
\* C3: after HelloWeldVector(v) and add(n1), ..., add(nk), weld_code is the
\* k-fold nesting map(...map(map(name, |e| e + n1), |e| e + n2)..., |e| e + nk)
\* with the earliest add innermost, name being the name update returned for v.

RECURSIVE Nesting(_, _)
Nesting(name, ns) ==
    IF ns = <<>> THEN <<name>>
    ELSE <<"map(">> \o Nesting(name, Front(ns)) \o <<", |e| e + ">>
         \o PyStr(ns[Len(ns)]) \o <<")">>

C3_NestedMaps ==
    (live # {} /\ ~poisoned) =>
        /\ weldobj.name = InputNames[var_num]
        /\ weldobj.data = wrapped[var_num]
        /\ weldobj.weld_code = Nesting(weldobj.name, since_init)

C3_Witness ==
    /\ ~poisoned
    /\ Len(since_init) = 2
    /\ since_init[1] # since_init[2]
    /\ weldobj.weld_code =
         <<"map(", "map(", weldobj.name, ", |e| e + ">> \o PyStr(since_init[1])
         \o <<")", ", |e| e + ">> \o PyStr(since_init[2]) \o <<")">>

------------------------------------------------------------------------------
\* C4: vector_sum returns the sum, over the elements of the vector the
\* instance wraps, of the element plus every number added to the instance
\* so far; directly after construction, the sum of the input vector.

RECURSIVE PlusAll(_, _)
\* e + n1 + ... + nk as a 64-bit value, without wrap-around
PlusAll(x, ns) ==
    IF ns = <<>> THEN x
    ELSE PlusAll(Merge64(x, I64(ns[1].val)), SubSeq(ns, 2, Len(ns)))

RECURSIVE ExactSum(_, _)
ExactSum(v, ns) ==
    IF v = <<>> THEN Zero64
    ELSE Merge64(ExactSum(Front(v), ns), PlusAll(I64(v[Len(v)]), ns))

C4_VectorSumValue ==
    (last.op = "vector_sum" /\ ~last.raised) =>
        /\ IsInts(added[last.h])
        /\ last.value = ExactSum(wrapped[last.h], added[last.h])

------------------------------------------------------------------------------
\* C6: add never fails and splices str(number) into the program whatever the
\* operand is; a failure of evaluate inside vector_sum reaches the caller,
\* leaving weld_code as the result(for(...)) program and decoder as the
\* ScalarDecoder.

IsSumProgram(code) ==
    /\ Len(code) >= 3
    /\ code[1] = "result(for("
    /\ code[Len(code)] = ", merger[i64,+], |b,i,e| merge(b, i64(e))))"

EndsWithOperand(code, number) ==
    LET str == PyStr(number)
    IN  /\ Len(code) >= Len(str) + 4
        /\ code[1] = "map("
        /\ code[Len(code)] = ")"
        /\ SubSeq(code, Len(code) - Len(str), Len(code) - 1) = str
        /\ code[Len(code) - Len(str) - 1] = ", |e| e + "

C6_NoLocalHandling ==
    /\ last.op = "add" =>
          /\ ~last.raised
          /\ EndsWithOperand(weldobj.weld_code, added[last.h][Len(added[last.h])])
    /\ (last.op = "vector_sum" /\ last.raised) =>
          /\ IsSumProgram(weldobj.weld_code)
          /\ weldobj.decoder = ScalarDecoder
          /\ ~evaluate(weldobj).ok
    /\ (last.op = "vector_sum" /\ ~last.raised) =>
          /\ ~IsSumProgram(weldobj.weld_code)
          /\ weldobj.decoder = NumpyArrayDecoder
          /\ evaluate([weldobj EXCEPT !.weld_code = sum_template(@)]).ok

C6_Witness ==
    /\ last.op = "vector_sum"
    /\ last.raised
    /\ \E k \in 1..Len(since_init) : since_init[k].type = "float"
    /\ IsSumProgram(weldobj.weld_code)
    /\ weldobj.decoder = ScalarDecoder

Tri(n) == (n * (n - 1)) \div 2

------------------------------------------------------------------------------
\* C1: evaluation is deferred.  While run_numpy_addition_with_weld is adding,
\* evaluate has not been called for this vector and the program has one map
\* per add made; evaluate is called once, by vector_sum, after all the
\* ITERATIONS adds.

C1_DeferredEvaluation ==
    /\ pc = "weld_loop" =>
          /\ evals = run - 1
          /\ NumMaps(weldobj.weld_code) = i
          /\ Len(since_init) = i
    /\ pc = "weld_returned" =>
          /\ evals = run
          /\ Len(since_init) = iters
          /\ \A k \in 1..iters : since_init[k] = PyInt(k - 1)

C1_Witness ==
    /\ pc = "weld_returned"
    /\ run = 1
    /\ iters = ITERATIONS
    /\ Len(added[hv]) = ITERATIONS
    /\ evals = 1

------------------------------------------------------------------------------
\* C2: run_numpy_addition_with_weld returns what run_numpy_addition returns
\* on an equal fresh array; on an all-zero array both return
\* SIZE * (0 + 1 + ... + (ITERATIONS - 1)).

AllZero(v) == \A k \in 1..Len(v) : v[k] = 0

C2_WeldEqualsNumpy ==
    pc = "weld_returned" =>
        /\ result_weld[run] = result_numpy[run]
        /\ AllZero(inp) => result_weld[run] = I64(Len(inp) * Tri(iters))

C2_Witness ==
    /\ pc = "weld_returned"
    /\ iters = ITERATIONS
    /\ inp = <<0, 0>>
    /\ result_numpy[run] = I64(1560)
    /\ result_weld[run] = I64(1560)

------------------------------------------------------------------------------
\* C7 (as amended): run_numpy_addition works in place: when it returns, every
\* element of the caller's array has been increased by
\* 0 + 1 + ... + (ITERATIONS - 1) modulo 2^32 (int32 wrap-around), and
\* the value returned is the sum of the updated array.

------------------------------------------------------------------------------
\* C8: on the same dataframe run_data_cleaning_grizzly yields the same set of
\* unique 'Incident Zip' values as run_data_cleaning_pandas, the missing
\* value NaN of Pandas corresponding to the string 'nan' of Grizzly.

AsGrizzly(c) == IF c = NaN THEN Str(NanString) ELSE c

C8_GrizzlyEqualsPandas ==
    cpc = "g_done" =>
        Range(result_grizzly[grun]) = {AsGrizzly(c) : c \in Range(result_pandas)}

C8_Witness ==
    /\ cpc = "g_done"
    /\ NaN \in Range(result_pandas)
    /\ Str(<<"1", "0", "0", "0", "4">>) \in Range(result_pandas)
    /\ Range(result_grizzly[grun]) = {Str(NanString), Str(<<"1", "0", "0", "0", "4">>)}

------------------------------------------------------------------------------
\* C9: after the cleaning steps every zipcode is cut to its first 5
\* characters and every zipcode that is then 00000 has become nan: neither
\* result holds a value longer than 5 characters or the value '00000'.

Cleaned(c) ==
    IF c.na THEN NaN
    ELSE LET five == IF Len(c.s) <= 5 THEN c.s
                     ELSE <<c.s[1], c.s[2], c.s[3], c.s[4], c.s[5]>>
         IN  IF five = <<"0", "0", "0", "0", "0">> THEN NaN ELSE Str(five)

CleanResult(res) ==
    \A k \in 1..Len(res) : Len(res[k].s) <= 5 /\ res[k] # Str(Zeros5)

C9_TruncatedNoZeros ==
    /\ cpc \notin {"start", "p_mask", "p_assign", "p_unique"} =>
          /\ CleanResult(result_pandas)
          /\ Range(result_pandas) = {Cleaned(c) : c \in Range(requests_orig)}
    /\ cpc = "g_done" =>
          /\ CleanResult(result_grizzly[grun])
          /\ Range(result_grizzly[grun])
               = {AsGrizzly(Cleaned(c)) : c \in Range(requests_orig)}

C9_Witness ==
    /\ cpc = "g_done"
    /\ requests_orig = <<Str(<<"0", "0", "0", "0", "0", "0">>),
                         Str(<<"1", "0", "0", "0", "4", "-", "1">>)>>
    /\ result_pandas = <<NaN, Str(<<"1", "0", "0", "0", "4">>)>>
    /\ Str(NanString) \in Range(result_grizzly[grun])

====
